---- MODULE Spec2Model ----
(***************************************************************************)
(* A model of the MSP research pipeline:                                   *)
(*   - msp_pipeline/clean.py      dedupe_summaries       (SpecDedupe)      *)
(*   - msp_pipeline/people.py     discover_people        (Spec)            *)
(*   - scripts/msp_search_and_summarize.py, north_america_msp_search_and_  *)
(*     summarize.py               process_company        (Spec)            *)
(*   - msp_pipeline/database.py   populate_companies_people (SpecLoad)     *)
(*                                                                         *)
(* Python strings are modelled as sequences of one-character strings, so   *)
(* that strip/lower/regex substitution are computed, not assumed.          *)
(***************************************************************************)
EXTENDS Naturals, Sequences, FiniteSets

VARIABLES
    \* ---- clean.py: dedupe_summaries
    inFile,       \* rows of input_csv (after the header), in file order
    outFile,      \* rows of output_csv (empty until a call writes it)
    dpc,          \* "idle" before a call, "done" after dedupe_summaries returned
    keep,         \* the keep argument of the last call
    ret,          \* (total_rows, unique_rows) returned by the last call
    fromOutput,   \* inFile is a copy of the previous call's output_csv
    \* ---- the collectors: discover_people and the two process_company
    collector,    \* which program runs: "people", "msp" or "na"
    cache,        \* CACHE_DIR: cache key -> the result list saved under it
    cpc,          \* "idle", "run", "done" (returned), "raised" (by a query) or
                  \* "raised_in_summarizer"
    creds,        \* GOOGLE_KEY and GOOGLE_CX are both set
    per_company,  \* discover_people's per_company
    companies,    \* the rows being processed
    ci,           \* index of the company being processed (0 before the first)
    qi,           \* number of its queries done
    seen,         \* discover_people's seen set
    out_rows,     \* discover_people's out_rows
    written,      \* output_csv has been written by this run
    collected,    \* process_company's collected / results list
    evidence,     \* the evidence list process_company returns
    summary,      \* the summary process_company returns
    sent,         \* the evidence items put into the summarizer request
    openai_key,   \* OPENAI_KEY is set
    openai,       \* what the request to the summarizer came to ("not_called" if none)
    \* observations of the last query, for stating the properties
    examined,     \* the items the item loop has looked at for this company
    keptBefore,   \* len(seen) when the last query was looked up
    lastStored,   \* the last query's key was in the cache when looked up
    lastCalled,   \* the last query sent a request to the provider
    slept,        \* the last query ended with time.sleep
    cacheWasEmpty,  \* the run started with an empty cache
    allCallsFailed,  \* every provider request of this run failed
    \* ---- database.py: populate_companies_people and load_csv
    engine,            \* how the DuckDB build treats the companies upsert
    table_kind,        \* of msp, companies, people: "absent", "schema" (made by
                       \* create_schema) or "raw" (made by load_csv)
    raw,               \* the columns and rows of the tables made by load_csv
    db_companies,      \* the rows of the companies table of create_schema
    db_people,         \* the rows of the people table of create_schema
    company_id_seq,    \* the next value of company_id_seq
    people_id_seq,     \* the next value of people_id_seq
    lpc,               \* "idle"; "done", "raised_companies" or "raised_people" after
                       \* populate_companies_people; "csv_loaded" or "csv_raised"
                       \* after load_csv
    loads,             \* number of calls so far
    loadRet,           \* (companies_loaded, people_loaded) of the last populate call
    csvRet,            \* the row count the last load_csv returned
    lastCompaniesCsv,  \* companies_csv of the last populate call
    lastPeopleCsv,     \* people_csv of the last populate call
    repeated,          \* the last call and the call before were populate calls
                       \* with the same companies_csv
    prevCompanies,     \* db_companies before the last call
    prevPeople,        \* db_people before the last call
    \* ---- main of the two summarization scripts
    mpc,           \* "none", "loop", "exit0", "exit1" or "raised"
    main_exists,   \* Path(args.input).exists()
    main_openai,   \* OPENAI_KEY is set in the process that runs main
    main_rows,     \* the rows of args.input (none when there is no file)
    main_limit,    \* args.limit (0: no limit)
    mi,            \* number of rows the loop of main has gone through
    main_out,      \* out_rows of main
    main_written   \* args.output has been written

dedupeVars == <<inFile, outFile, dpc, keep, ret, fromOutput>>
collectVars == <<collector, cache, cpc, creds, per_company, companies, ci, qi, seen, out_rows,
                 written, collected, evidence, summary, sent, openai_key, openai, examined,
                 keptBefore,
                 lastStored, lastCalled, slept, cacheWasEmpty, allCallsFailed>>
loadVars == <<engine, table_kind, raw, db_companies, db_people, company_id_seq,
              people_id_seq, lpc, loads, loadRet, csvRet, lastCompaniesCsv, lastPeopleCsv,
              repeated, prevCompanies, prevPeople>>
mainVars == <<mpc, main_exists, main_openai, main_rows, main_limit, mi, main_out,
              main_written>>
vars == <<dedupeVars, collectVars, loadVars, mainVars>>

(***************************************************************************)
(* Strings                                                                 *)
(***************************************************************************)
UpperChars == <<"A","B","C","D","E","F","G","H","I","J","K","L","M",
                "N","O","P","Q","R","S","T","U","V","W","X","Y","Z">>
LowerChars == <<"a","b","c","d","e","f","g","h","i","j","k","l","m",
                "n","o","p","q","r","s","t","u","v","w","x","y","z">>
Digits == {"0","1","2","3","4","5","6","7","8","9"}

\* the characters \s matches (and str.strip removes) among those modelled
Whitespace == {" ", "\t", "\n", "\r", "\f"}

Range(f) == {f[i] : i \in DOMAIN f}

Min(a, b) == IF a <= b THEN a ELSE b

\* str.lower on one character
LowerChar(c) ==
    IF \E i \in DOMAIN UpperChars : UpperChars[i] = c
    THEN LowerChars[CHOOSE i \in DOMAIN UpperChars : UpperChars[i] = c]
    ELSE c

\* str.lower
Lower(s) == [i \in 1..Len(s) |-> LowerChar(s[i])]

\* str.strip: drop leading and trailing whitespace
Strip(s) ==
    LET keepIdx == {i \in 1..Len(s) : s[i] \notin Whitespace}
    IN  IF keepIdx = {} THEN <<>>
        ELSE LET lo == CHOOSE i \in keepIdx : \A j \in keepIdx : i <= j
                 hi == CHOOSE i \in keepIdx : \A j \in keepIdx : j <= i
             IN  SubSeq(s, lo, hi)

\* re.sub(r"\s+", " ", s): every maximal run of whitespace becomes one space
RECURSIVE CollapseWs(_)
CollapseWs(s) ==
    IF s = <<>> THEN <<>>
    ELSE IF s[1] \in Whitespace
         THEN IF Len(s) > 1 /\ s[2] \in Whitespace
              THEN CollapseWs(Tail(s))
              ELSE <<" ">> \o CollapseWs(Tail(s))
         ELSE <<s[1]>> \o CollapseWs(Tail(s))

\* clean.py _normalize_name: strip, lower, collapse whitespace runs
_normalize_name(name) == CollapseWs(Lower(Strip(name)))

(***************************************************************************)
(* clean.py: dedupe_summaries                                              *)
(***************************************************************************)
\* the longest input file enumerated
MaxRows == 3

\* display names of the input rows: the scenario's three spellings of one
\* company, a second company, and names whose key is empty
AcmeIT      == <<"A","c","m","e"," ","I","T">>
AcmeITLoose == <<" "," ","a","c","m","e"," ","i","t"," "," ">>
AcmeITTab   == <<"A","C","M","E","\t"," ","I","T">>
Bolt        == <<"B","o","l","t">>
Blank       == <<" ">>
Empty       == <<>>
DedupeNames == {AcmeIT, AcmeITLoose, AcmeITTab, Bolt, Blank, Empty}

\* a row of the summaries file: the name field and the rest of the row
DedupeRows == [name : DedupeNames, summary : {"s1", "s2"}]

RECURSIVE SeqsUpTo(_, _)
SeqsUpTo(S, n) ==
    IF n = 0 THEN {<<>>}
    ELSE LET shorter == SeqsUpTo(S, n - 1)
         IN  shorter \cup {Append(q, x) : q \in {p \in shorter : Len(p) = n - 1}, x \in S}

\* the state of the loop before the first row: seen = {}, total_rows = 0.
\* seen is an insertion-ordered dict: a sequence of (key, row) entries.
dedupe_init == [seen |-> <<>>, total_rows |-> 0]

\* dict assignment seen[key] = row: a key already present keeps its position
dict_set(dct, key, row) ==
    IF \E i \in DOMAIN dct : dct[i][1] = key
    THEN [i \in DOMAIN dct |-> IF dct[i][1] = key THEN <<key, row>> ELSE dct[i]]
    ELSE Append(dct, <<key, row>>)

\* a loop body that replaces the kept row whatever the policy
dedupe_step_always_replace(st, row, kp) ==
    LET key == _normalize_name(row.name)
    IN  IF key = <<>> THEN [st EXCEPT !.total_rows = @ + 1]
        ELSE [seen |-> dict_set(st.seen, key, row), total_rows |-> st.total_rows + 1]

\* a loop body that counts a row only after the empty-key test
dedupe_step_count_after_skip(st, row, kp) ==
    LET key == _normalize_name(row.name)
    IN  IF key = <<>> THEN st
        ELSE IF \E i \in DOMAIN st.seen : st.seen[i][1] = key
             THEN [seen |-> IF kp = "last" THEN dict_set(st.seen, key, row) ELSE st.seen,
                   total_rows |-> st.total_rows + 1]
             ELSE [seen |-> dict_set(st.seen, key, row), total_rows |-> st.total_rows + 1]

\* one iteration of `for row in reader`
dedupe_step(st, row, kp) ==
    LET key == _normalize_name(row.name)
        counted == [st EXCEPT !.total_rows = @ + 1]
    IN  IF key = <<>> THEN counted
        ELSE IF \E i \in DOMAIN st.seen : st.seen[i][1] = key
             THEN IF kp = "last"
                  THEN [counted EXCEPT !.seen = dict_set(st.seen, key, row)]
                  ELSE counted
             ELSE [counted EXCEPT !.seen = dict_set(st.seen, key, row)]

RECURSIVE dedupe_loop(_, _, _)
dedupe_loop(st, rows, kp) ==
    IF rows = <<>> THEN st
    ELSE dedupe_loop(dedupe_step(st, Head(rows), kp), Tail(rows), kp)

\* seen.values() iterated back to front
seen_values_reversed(dct) == [i \in 1..Len(dct) |-> dct[Len(dct) + 1 - i][2]]

\* seen.values(): the rows in insertion order of their keys
seen_values(dct) == [i \in 1..Len(dct) |-> dct[i][2]]

\* dedupe_summaries(input_csv, output_csv, keep=kp): reads every row, writes
\* the kept rows and returns (total_rows, len(seen))
DedupeSummaries(kp) ==
    LET st == dedupe_loop(dedupe_init, inFile, kp)
    IN  /\ outFile' = seen_values(st.seen)
        /\ ret' = <<st.total_rows, Len(st.seen)>>
        /\ keep' = kp
        /\ dpc' = "done"
        /\ UNCHANGED <<inFile, fromOutput, collectVars, loadVars, mainVars>>

\* the caller feeds the written output back in as the next input
ReuseOutput ==
    /\ dpc = "done"
    /\ ~fromOutput
    /\ inFile' = outFile
    /\ fromOutput' = TRUE
    /\ outFile' = <<>>
    /\ dpc' = "idle"
    /\ ret' = <<0, 0>>
    /\ UNCHANGED <<keep, collectVars, loadVars, mainVars>>

DedupeIdle ==
    /\ inFile = <<>>
    /\ outFile = <<>>
    /\ dpc = "idle"
    /\ keep = "first"
    /\ ret = <<0, 0>>
    /\ fromOutput = FALSE

DedupeInit ==
    /\ inFile \in SeqsUpTo(DedupeRows, MaxRows)
    /\ outFile = <<>>
    /\ dpc = "idle"
    /\ keep = "first"
    /\ ret = <<0, 0>>
    /\ fromOutput = FALSE

DedupeNext ==
    \/ \E kp \in {"first", "last"} : DedupeSummaries(kp)
    \/ ReuseOutput

(***************************************************************************)
(* Helpers shared by the three collectors                                  *)
(***************************************************************************)
Alnum == Range(UpperChars) \cup Range(LowerChars) \cup Digits

Prefix(s, n) == SubSeq(s, 1, Min(Len(s), n))

StartsWith(s, p) == Len(p) <= Len(s) /\ SubSeq(s, 1, Len(p)) = p

\* Python's `p in s` on strings
Contains(s, p) == \E i \in 1..(Len(s) + 1) : StartsWith(SubSeq(s, i, Len(s)), p)

\* the maximal leading run of characters other than "/"  ([^/]+, greedy)
RECURSIVE HostRun(_)
HostRun(s) ==
    IF s = <<>> \/ s[1] = "/" THEN <<>> ELSE <<s[1]>> \o HostRun(Tail(s))

\* str.strip(chars)
StripChars(s, chars) ==
    LET keepIdx == {i \in 1..Len(s) : s[i] \notin chars}
    IN  IF keepIdx = {} THEN <<>>
        ELSE LET lo == CHOOSE i \in keepIdx : \A j \in keepIdx : i <= j
                 hi == CHOOSE i \in keepIdx : \A j \in keepIdx : j <= i
             IN  SubSeq(s, lo, hi)

\* re.sub(r"[^a-zA-Z0-9]+", "-", s)
RECURSIVE DashNonAlnum(_)
DashNonAlnum(s) ==
    IF s = <<>> THEN <<>>
    ELSE IF s[1] \notin Alnum
         THEN IF Len(s) > 1 /\ s[2] \notin Alnum
              THEN DashNonAlnum(Tail(s))
              ELSE <<"-">> \o DashNonAlnum(Tail(s))
         ELSE <<s[1]>> \o DashNonAlnum(Tail(s))

\* the [:150] of people.cache_key and the [:120] of the scripts' cache_key
PeopleKeyLen == 150
ScriptKeyLen == 120

\* cache_key(s), with the truncation length of the module it belongs to
cache_key(s, maxLen) == Prefix(DashNonAlnum(s), maxLen)

\* the match of r"https?://(?:www\.)?([^/]+)" (re.I) starting at s[1]:
\* group 1, or <<>> when the pattern does not match there
DomainMatchAt(s) ==
    LET low  == Lower(s)
        rest == IF StartsWith(low, <<"h","t","t","p","s",":","/","/">>) THEN SubSeq(s, 9, Len(s))
                ELSE IF StartsWith(low, <<"h","t","t","p",":","/","/">>) THEN SubSeq(s, 8, Len(s))
                ELSE <<>>
        noWww == IF StartsWith(Lower(rest), <<"w","w","w",".">>) THEN SubSeq(rest, 5, Len(rest)) ELSE <<>>
    IN  IF HostRun(noWww) # <<>> THEN HostRun(noWww) ELSE HostRun(rest)

\* re.search: the leftmost position where the pattern matches
RECURSIVE DomainSearch(_)
DomainSearch(s) ==
    IF s = <<>> THEN <<>>
    ELSE IF DomainMatchAt(s) # <<>> THEN DomainMatchAt(s)
         ELSE DomainSearch(Tail(s))

\* website_domain(url): the lower-cased host of the first URL in the text, or ""
website_domain(url) == Lower(DomainSearch(Strip(url)))

(***************************************************************************)
(* people.py: filters and queries                                          *)
(***************************************************************************)
ExcludedPaths == { <<"/","p","u","b","/">>, <<"/","j","o","b","s","/">>, <<"/","p","o","s","t","s","/">>, <<"/","e","v","e","n","t","s","/">>,
                   <<"/","l","e","a","r","n","i","n","g","/">>, <<"/","p","u","l","s","e","/">>, <<"/","c","o","m","p","a","n","y","/">>, <<"/","s","c","h","o","o","l","/">> }

ProfilePrefixes == { <<"h","t","t","p",":","/","/","l","i","n","k","e","d","i","n",".","c","o","m","/","i","n","/">>, <<"h","t","t","p","s",":","/","/","l","i","n","k","e","d","i","n",".","c","o","m","/","i","n","/">>,
                     <<"h","t","t","p",":","/","/","w","w","w",".","l","i","n","k","e","d","i","n",".","c","o","m","/","i","n","/">>, <<"h","t","t","p","s",":","/","/","w","w","w",".","l","i","n","k","e","d","i","n",".","c","o","m","/","i","n","/">> }

\* PROFILE_RE.match(url): a LinkedIn /in/ URL with a non-empty handle
profile_match(url) ==
    \E p \in ProfilePrefixes :
        /\ StartsWith(Lower(url), p)
        /\ Len(url) > Len(p)
        /\ url[Len(p) + 1] \notin {"/", "?", "#"}

\* is_profile(url)
is_profile(url) ==
    IF url = <<>> \/ (\E x \in ExcludedPaths : Contains(Lower(url), x))
    THEN FALSE
    ELSE profile_match(url)

\* likely_employee(result, company)
likely_employee(result, company) ==
    Contains(Lower(result.title \o <<" ">> \o result.snippet), Lower(company))

\* people.build_queries(company, domain)
build_queries(company, domain) ==
    Prefix(
        (IF company # <<>> THEN << <<"s","i","t","e",":","l","i","n","k","e","d","i","n",".","c","o","m","/","i","n"," ","\"">> \o company \o <<"\"">> >> ELSE <<>>)
        \o (IF domain # <<>> THEN << <<"s","i","t","e",":","l","i","n","k","e","d","i","n",".","c","o","m","/","i","n"," ","\"">> \o domain \o <<"\"">> >> ELSE <<>>)
        \o (IF company # <<>>
            THEN << <<"s","i","t","e",":","l","i","n","k","e","d","i","n",".","c","o","m","/","i","n"," ">> \o company \o <<" ","-","j","o","b","s"," ","-","j","o","b"," ","-","h","i","r","i","n","g">> >>
            ELSE <<>>),
        3)

(***************************************************************************)
(* The summarization scripts: queries                                      *)
(***************************************************************************)
\* drop later repetitions of a query, keeping the first (seen, uniq)
RECURSIVE UniqueInOrder(_, _)
UniqueInOrder(qs, seenQs) ==
    IF qs = <<>> THEN <<>>
    ELSE IF Head(qs) \in seenQs THEN UniqueInOrder(Tail(qs), seenQs)
         ELSE <<Head(qs)>> \o UniqueInOrder(Tail(qs), seenQs \cup {Head(qs)})

\* msp_search_and_summarize.build_msp_queries(name, website)
build_msp_queries(name, website) ==
    LET nm  == StripChars(StripChars(Strip(name), {"\""}), {"'"})
        dom == IF website = <<>> THEN <<>> ELSE website_domain(website)
        q(n, suffix) == <<"\"">> \o n \o <<"\"">> \o suffix
        s(d, suffix) == <<"s","i","t","e",":">> \o d \o suffix
        byName == IF nm # <<>>
                  THEN << q(nm, <<" ","m","a","n","a","g","e","d"," ","s","e","r","v","i","c","e","s">>), q(nm, <<" ","I","T"," ","s","e","r","v","i","c","e","s">>),
                          q(nm, <<" ","c","l","o","u","d"," ","s","e","r","v","i","c","e","s">>), q(nm, <<" ","c","o","m","p","a","n","y"," ","p","r","o","f","i","l","e">>) >>
                  ELSE <<>>
        byDom  == IF dom # <<>>
                  THEN << s(dom, <<" ","a","b","o","u","t">>), s(dom, <<" ","s","e","r","v","i","c","e","s">>), s(dom, <<" ","s","o","l","u","t","i","o","n","s">>) >>
                  ELSE <<>>
    IN  Prefix(UniqueInOrder(byName \o byDom, {}), 6)

\* north_america_msp_search_and_summarize.build_queries(name, website)
na_build_queries(name, website) ==
    LET nm  == StripChars(StripChars(Strip(name), {"\""}), {"'"})
        dom == IF website = <<>> THEN <<>> ELSE website_domain(website)
    IN  (IF nm # <<>> THEN << <<"\"">> \o nm \o <<"\""," ","m","a","n","a","g","e","d"," ","s","e","r","v","i","c","e","s">> >> ELSE <<>>)
        \o (IF dom # <<>> THEN << <<"s","i","t","e",":">> \o dom \o <<" ","m","a","n","a","g","e","d"," ","s","e","r","v","i","c","e","s">> >> ELSE <<>>)

(***************************************************************************)
(* The collectors' inputs and the evidence provider                        *)
(***************************************************************************)
\* the largest per_company enumerated
MaxPerCompany == 2

Collectors == {"people", "msp", "na"}

\* rows of the companies table: (name, website).  Ab has a website, so it
\* gets every query template; the second row spells the name differently
\* and has no website.
CompanyAb  == [name |-> <<"A","b">>, website |-> <<"h","t","t","p","s",":","/","/","w","w","w",".","A","b",".","i","o","/","x">>]
CompanyAb2 == [name |-> <<" ","a","b">>, website |-> <<>>]
CompanyInputs == {CompanyAb, CompanyAb2}

\* the companies tables discover_people is run on: empty, one company, two
\* companies
PeopleTables == { <<>>, <<CompanyAb>>, <<CompanyAb, CompanyAb2>> }

\* the rows process_company is called with
CompanyAbNoSite == [name |-> <<"A","b">>, website |-> <<>>]
ScriptCompanies == {CompanyAb, CompanyAbNoSite}

GItem(l, t, s) == [link |-> l, title |-> t, snippet |-> s]

\* a field that is JSON null in the provider's answer (None once parsed);
\* no string is equal to it
PyNone == <<"None">>

ProfileUrl(h) == <<"h","t","t","p","s",":","/","/","l","i","n","k","e","d","i","n",".","c","o","m","/","i","n","/">> \o h

\* what Google returns for a people query: five distinct profiles of
\* employees; or a list with an item without link, a company page, a
\* profile first seen under a title that does not name the company, the
\* same profile again twice, and a profile of the first list
PeopleFive ==
    << GItem(ProfileUrl(<<"p","1">>), <<"A","b">>, <<>>), GItem(ProfileUrl(<<"p","2">>), <<"A","b">>, <<>>),
       GItem(ProfileUrl(<<"p","3">>), <<"A","b">>, <<>>), GItem(ProfileUrl(<<"p","4">>), <<"A","b">>, <<>>),
       GItem(ProfileUrl(<<"p","5">>), <<"A","b">>, <<>>) >>
PeopleMixed ==
    << GItem(<<>>, <<"A","b">>, <<>>),
       GItem(<<"h","t","t","p","s",":","/","/","l","i","n","k","e","d","i","n",".","c","o","m","/","c","o","m","p","a","n","y","/","a","b">>, <<"A","b">>, <<>>),
       GItem(ProfileUrl(<<"p","6">>), <<"Z","e","d">>, <<>>),
       GItem(ProfileUrl(<<"p","6">>), <<"C","T","O">>, <<"a","t"," ","A","B">>),
       GItem(ProfileUrl(<<"p","6">>), <<"A","b">>, <<>>),
       GItem(ProfileUrl(<<"p","1">>), <<"a","b"," ","x">>, <<>>) >>

\* what Google returns for a company query: six results (one more than a
\* query contributes); or a list that repeats a URL of the first list under
\* another title, repeats it with a trailing space (with a null
\* snippet), and has an empty and a blank URL (the latter with a null
\* title)
WebSix ==
    << GItem(<<"u","1">>, <<"t","1">>, <<>>), GItem(<<"u","2">>, <<"t","1">>, <<>>), GItem(<<"u","3">>, <<"t","1">>, <<>>),
       GItem(<<"u","4">>, <<"t","1">>, <<>>), GItem(<<"u","5">>, <<"t","1">>, <<>>), GItem(<<"u","6">>, <<"t","1">>, <<>>) >>
WebMixed ==
    << GItem(<<"u","7">>, <<"t","2">>, <<>>), GItem(<<"u","1">>, <<"t","2">>, <<>>), GItem(<<"u","1"," ">>, <<"t","3">>, PyNone),
       GItem(<<>>, <<"t","2">>, <<>>), GItem(<<" ">>, PyNone, <<>>), GItem(<<"u","7">>, <<"t","3">>, <<>>) >>

\* the outcome of one HTTP request to the search API: a JSON object with
\* items; any failure urlopen/json.load raises (network error, timeout,
\* non-2xx status, body that is not JSON); or a body that is valid JSON but
\* not an object
Outcome(kind, items) == [kind |-> kind, items |-> items]
ProviderOutcomes(coll) ==
    { Outcome("items", l) : l \in IF coll = "people"
                                  THEN {PeopleFive, PeopleMixed, <<>>}
                                  ELSE {WebSix, WebMixed, <<>>} }
    \cup { Outcome("exception", <<>>), Outcome("json_null", <<>>),
           Outcome("json_empty_object", <<>>), Outcome("json_empty_list", <<>>),
           Outcome("json_list", <<>>) }

\* what the provider answered is a JSON object: kind "items" is an object
\* with a key (these items under "items"; none for {"items": []} and for
\* an answer without "items"), "json_empty_object" is {}.  The other
\* bodies are null, [] and [1].
IsObject(o) == o.kind \in {"items", "json_empty_object"}

\* bool(data) of a parsed body: null, [] and {} are falsy; [1] and an
\* object with a key are truthy
Truthy(o) == o.kind \in {"items", "json_list"}

\* http_json(url): the parsed body, or None for every exception; the
\* body null is parsed to None as well (ok = FALSE stands for None)
http_json(o) ==
    IF o.kind \in {"exception", "json_null"}
    THEN [ok |-> FALSE, body |-> o]
    ELSE [ok |-> TRUE, body |-> o]

\* `data.get("items", []) if data else []` of google_cse and search_google:
\* a falsy data (None, [], {}) gives [], a truthy body that is not a JSON
\* object has no .get, and the call raises
provider_items(o) ==
    LET data == http_json(o)
    IN  IF ~data.ok \/ ~Truthy(data.body) THEN [raised |-> FALSE, res |-> <<>>]
        ELSE IF ~IsObject(data.body) THEN [raised |-> TRUE, res |-> <<>>]
        ELSE [raised |-> FALSE, res |-> data.body.items]

\* search_google's mapping of the raw items to {url, title, snippet}
\* `x or ''`
OrEmpty(x) == IF x = PyNone THEN <<>> ELSE x

\* one result as search_google gives it: the msp script puts '' for a
\* null field (`it.get('title','') or ''`), the North America script
\* passes the field as it is
web_item(coll, it) ==
    IF coll = "msp"
    THEN [url |-> OrEmpty(it.link), title |-> OrEmpty(it.title),
          snippet |-> OrEmpty(it.snippet)]
    ELSE [url |-> it.link, title |-> it.title, snippet |-> it.snippet]
web_items(coll, items) == [i \in 1..Len(items) |-> web_item(coll, items[i])]

\* cache_save(key, data): the cache file of key now holds data
cache_put(c, key, data) ==
    [k \in (DOMAIN c) \cup {key} |-> IF k = key THEN data ELSE c[k]]

\* the name, website and domain discover_people derives from an input row
people_company(row) == Strip(row.name)
people_website(row) == Strip(row.website)
people_domain(row) == Lower(DomainSearch(Strip(row.website)))
people_queries(row) == build_queries(people_company(row), people_domain(row))

script_queries(coll, row) ==
    IF coll = "msp" THEN build_msp_queries(row.name, row.website)
    ELSE na_build_queries(Strip(row.name), Strip(row.website))

\* The string functions, tabulated once for the strings of the model:
\* what discover_people derives from a row, and its queries' cache keys
PeopleInfo ==
    [row \in CompanyInputs |->
        [company |-> people_company(row),
         website |-> people_website(row),
         keys |-> [k \in 1..Len(people_queries(row)) |->
                      cache_key(people_queries(row)[k], PeopleKeyLen)]]]

\* the cache keys of process_company's queries: cache_key('q-' + query)
ScriptKeys ==
    [coll \in {"msp", "na"} |->
        [row \in ScriptCompanies |->
            [k \in 1..Len(script_queries(coll, row)) |->
                cache_key(<<"q","-">> \o script_queries(coll, row)[k], ScriptKeyLen)]]]

PeopleItems == Range(PeopleFive) \cup Range(PeopleMixed)

\* is_profile(item.get("link", "")) and likely_employee(item, company)
IsProfile == [it \in PeopleItems |-> is_profile(it.link)]
LikelyEmployee ==
    [it \in PeopleItems |->
        [row \in CompanyInputs |-> likely_employee(it, people_company(row))]]

WebResultItems ==
    UNION { Range(web_items(coll, l)) :
                coll \in {"msp", "na"},
                l \in {WebSix, WebMixed} }

\* (r.get('url') or '').strip()
StrippedUrl == [it \in WebResultItems |-> Strip(it.url)]

(***************************************************************************)
(* people.py: the item loop of discover_people                             *)
(***************************************************************************)
\* one row of out_rows; idx is the position of the company in the input
\* (the loop's enumerate index), kept to tell the companies' rows apart
people_row(idx, row, item) ==
    [idx |-> idx, company |-> PeopleInfo[row].company, website |-> PeopleInfo[row].website,
     profile_url |-> item.link, title |-> item.title, snippet |-> item.snippet]

\* one iteration of `for item in res` (lines 190-207); stop is the break
people_item(st, item, idx, row, n) ==
    IF st.stop THEN st
    ELSE LET looked == [st EXCEPT !.examined = Append(@, item)]
         IN  IF ~IsProfile[item] \/ item.link \in st.seen THEN looked
             ELSE IF ~LikelyEmployee[item][row] THEN looked
             ELSE [looked EXCEPT !.seen = @ \cup {item.link},
                                 !.rows = Append(@, people_row(idx, row, item)),
                                 !.stop = Cardinality(st.seen \cup {item.link}) >= n]

RECURSIVE people_items(_, _, _, _, _)
people_items(st, res, idx, row, n) ==
    IF res = <<>> THEN st
    ELSE people_items(people_item(st, Head(res), idx, row, n), Tail(res), idx, row, n)

(***************************************************************************)
(* The summarization scripts: dedupe and summarize                         *)
(***************************************************************************)
\* the [:5] a query contributes, the [:10] kept after dedupe, the [:5] sent
\* to the summarizer
PerQueryItems == 5
MaxEvidence == 10
MaxSummaryItems == 5

\* a dedupe that never records the URLs it has kept
RECURSIVE dedupe_results_no_seen(_, _)
dedupe_results_no_seen(results, seenUrls) ==
    IF results = <<>> THEN <<>>
    ELSE LET url == StrippedUrl[Head(results)]
         IN  IF url = <<>> \/ url \in seenUrls
             THEN dedupe_results_no_seen(Tail(results), seenUrls)
             ELSE <<Head(results)>> \o dedupe_results_no_seen(Tail(results), seenUrls)

\* msp_search_and_summarize.dedupe_results: URLs are compared stripped
RECURSIVE dedupe_results(_, _)
dedupe_results(results, seenUrls) ==
    IF results = <<>> THEN <<>>
    ELSE LET url == StrippedUrl[Head(results)]
         IN  IF url = <<>> \/ url \in seenUrls
             THEN dedupe_results(Tail(results), seenUrls)
             ELSE <<Head(results)>> \o dedupe_results(Tail(results), seenUrls \cup {url})

\* the dedupe loop of the North America process_company: URLs as they are
RECURSIVE na_dedupe(_, _)
na_dedupe(results, seenUrls) ==
    IF results = <<>> THEN <<>>
    ELSE LET url == Head(results).url
         IN  IF url # <<>> /\ url \notin seenUrls
             THEN <<Head(results)>> \o na_dedupe(Tail(results), seenUrls \cup {url})
             ELSE na_dedupe(Tail(results), seenUrls)

\* what the request to the summarizer comes to: status 200 with a summary,
\* with an empty one, or with a body that has an empty list of choices; a
\* status other than 200 with its body; an exception of requests.post
SummaryOutcomes ==
    { [kind |-> "ok", code |-> "200", text |-> "Acme runs networks. "],
      [kind |-> "ok", code |-> "200", text |-> " "],
      [kind |-> "no_choices", code |-> "200", text |-> ""],
      [kind |-> "status", code |-> "429", text |-> "rate limit"],
      [kind |-> "status", code |-> "500", text |-> "server error"],
      [kind |-> "exception", code |-> "", text |-> "timed out"] }

\* no request was made
NotCalled == [kind |-> "not_called", code |-> "", text |-> ""]

\* str.strip of the summaries the model answers with
StripText(t) ==
    IF t = "Acme runs networks. " THEN "Acme runs networks." ELSE IF t = " " THEN "" ELSE t

\* the exception `choices[0]` raises on an empty list (both scripts index
\* the list inside the try block)
IndexErrorText == "list index out of range"

\* the loop before the try block builds the request items from
\* evidence[:5].  The North America script calls
\* it.get('title', '').strip() and slices it.get('snippet', ''): a title
\* or snippet that is None raises AttributeError or TypeError there.  The
\* msp script reads both with `or ''`.
request_items_raise(coll, items) ==
    /\ coll = "na"
    /\ \E i \in 1..Len(Prefix(items, MaxSummaryItems)) :
          items[i].title = PyNone \/ items[i].snippet = PyNone

\* summarize_with_openai (msp lines 195-248, North America lines 155-194):
\* the string returned; raised is an exception leaving the function,
\* called says whether the request was made
summarize_with_openai(coll, hasKey, items, o) ==
    IF ~hasKey
    THEN [raised |-> FALSE, called |-> FALSE,
          text |-> IF coll = "msp"
                   THEN "Missing OPENAI_API_KEY in environment; cannot summarize."
                   ELSE "Missing OPENAI_API_KEY; cannot summarize."]
    ELSE IF request_items_raise(coll, items)
    THEN [raised |-> TRUE, called |-> FALSE, text |-> ""]
    ELSE IF o.kind = "status"
    THEN [raised |-> FALSE, called |-> TRUE,
          text |-> "OpenAI error " \o o.code \o ": " \o o.text]
    ELSE IF o.kind = "exception"
    THEN [raised |-> FALSE, called |-> TRUE, text |-> "OpenAI request failed: " \o o.text]
    ELSE IF o.kind = "no_choices"
    THEN [raised |-> FALSE, called |-> TRUE,
          text |-> "OpenAI request failed: " \o IndexErrorText]
    ELSE IF coll = "msp" /\ StripText(o.text) = ""
    THEN [raised |-> FALSE, called |-> TRUE, text |-> "No summary generated."]
    ELSE [raised |-> FALSE, called |-> TRUE, text |-> StripText(o.text)]

(***************************************************************************)
(* The collectors as processes                                             *)
(***************************************************************************)
\* the number of queries of the company being processed
CurrentQueryCount ==
    IF ci = 0 THEN 0
    ELSE IF collector = "people" THEN Len(PeopleInfo[companies[ci]].keys)
    ELSE Len(ScriptKeys[collector][companies[ci]])

CollectInit ==
    /\ collector \in Collectors
    /\ cache = <<>>
    /\ cpc = "idle"
    /\ creds = FALSE
    /\ per_company = 1
    /\ companies = <<>>
    /\ ci = 0
    /\ qi = 0
    /\ seen = {}
    /\ out_rows = <<>>
    /\ written = FALSE
    /\ collected = <<>>
    /\ evidence = <<>>
    /\ summary = "none"
    /\ sent = <<>>
    /\ openai_key = FALSE
    /\ openai = NotCalled
    /\ examined = <<>>
    /\ keptBefore = 0
    /\ lastStored = FALSE
    /\ lastCalled = FALSE
    /\ slept = FALSE
    /\ cacheWasEmpty = TRUE
    /\ allCallsFailed = TRUE

\* the values of limit_companies: all companies (the default 0) and the
\* first one only
PeopleLimits == {0, 1}

\* `if limit_companies: companies = companies[:limit_companies]`
limited(table, limit) == IF limit # 0 THEN Prefix(table, limit) ELSE table

\* a fresh process: the module-level configuration is read, the locals are
\* empty; the cache directory is what earlier runs left
FreshRun(table, hasCreds, n, first) ==
    /\ creds' = hasCreds
    /\ per_company' = n
    /\ companies' = table
    /\ ci' = first
    /\ qi' = 0
    /\ seen' = {}
    /\ out_rows' = <<>>
    /\ collected' = <<>>
    /\ evidence' = <<>>
    /\ summary' = "none"
    /\ sent' = <<>>
    /\ openai_key' = FALSE
    /\ openai' = NotCalled
    /\ examined' = <<>>
    /\ keptBefore' = 0
    /\ lastStored' = FALSE
    /\ lastCalled' = FALSE
    /\ slept' = FALSE
    /\ cacheWasEmpty' = (DOMAIN cache = {})
    /\ allCallsFailed' = TRUE
    /\ UNCHANGED <<collector, cache, dedupeVars, loadVars>>

\* discover_people is called: the companies table is read and cut to
\* limit_companies (lines 165-171).
\* With no company there is nothing to loop over: the (empty) output is
\* written and 0 returned (lines 213-216).
StartPeople(table, limit, hasCreds, n) ==
    /\ collector = "people"
    /\ cpc = "idle"
    /\ FreshRun(limited(table, limit), hasCreds, n, 0)
    /\ cpc' = IF table = <<>> THEN "done" ELSE "run"
    /\ written' = (table = <<>>)
    /\ UNCHANGED mainVars

\* the rest of one iteration of `for q in build_queries(...)` once res is
\* known: cache_save, the item loop, the sleep; after the last query of the
\* last company the output is written and the call returns
PeopleProceed(c, k, res, stored, called, failed) ==
    LET row == companies[c]
        st0 == [seen |-> IF k = 1 THEN {} ELSE seen,
                rows |-> out_rows,
                examined |-> IF k = 1 THEN <<>> ELSE examined,
                stop |-> FALSE]
        st  == people_items(st0, res, c, row, per_company)
        last == c = Len(companies) /\ k = Len(PeopleInfo[row].keys)
    IN  /\ cache' = cache_put(cache, PeopleInfo[row].keys[k], res)
        /\ seen' = st.seen
        /\ out_rows' = st.rows
        /\ examined' = st.examined
        /\ keptBefore' = Cardinality(st0.seen)
        /\ lastStored' = stored
        /\ lastCalled' = called
        /\ slept' = TRUE
        /\ allCallsFailed' = (allCallsFailed /\ (called => failed))
        /\ ci' = c
        /\ qi' = k
        /\ cpc' = IF last THEN "done" ELSE "run"
        /\ written' = last
        /\ UNCHANGED <<collector, creds, per_company, companies, collected, evidence,
                       summary, sent, openai_key, openai, cacheWasEmpty, dedupeVars, loadVars, mainVars>>

\* an exception leaves discover_people: nothing is saved or written.
\* At the first query of a company `seen = set()` (line 184) has run
\* already, and no item of the company has been looked at.
CollectorRaises(c, k, stored) ==
    /\ cpc' = "raised"
    /\ ci' = c
    /\ qi' = k
    /\ seen' = IF k = 1 THEN {} ELSE seen
    /\ examined' = IF k = 1 THEN <<>> ELSE examined
    /\ lastStored' = stored
    /\ lastCalled' = TRUE
    /\ slept' = FALSE
    /\ keptBefore' = IF k = 1 THEN 0 ELSE Cardinality(seen)
    /\ UNCHANGED <<collector, cache, creds, per_company, companies, out_rows, written,
                   collected, evidence, summary, sent, openai_key, openai,
                   cacheWasEmpty, allCallsFailed, dedupeVars, loadVars, mainVars>>

\* one query of discover_people (lines 185-208):
\*     res = cache_load(key) or google_cse(q)
\* a cached empty list is falsy, so google_cse is evaluated again
PeopleQuery ==
    /\ collector = "people"
    /\ cpc = "run"
    /\ LET startNew == qi = CurrentQueryCount
           c == IF startNew THEN ci + 1 ELSE ci
           k == IF startNew THEN 1 ELSE qi + 1
           key == PeopleInfo[companies[c]].keys[k]
           stored == key \in DOMAIN cache
       IN  IF stored /\ cache[key] # <<>>
           THEN PeopleProceed(c, k, cache[key], stored, FALSE, FALSE)
           ELSE IF ~creds
                THEN PeopleProceed(c, k, <<>>, stored, FALSE, FALSE)
                ELSE \E o \in ProviderOutcomes("people") :
                        IF provider_items(o).raised
                        THEN CollectorRaises(c, k, stored)
                        ELSE PeopleProceed(c, k, provider_items(o).res, stored, TRUE,
                                           ~IsObject(o))

\* process_company is called for one row
StartCompany(row, hasCreds) ==
    /\ collector \in {"msp", "na"}
    /\ cpc = "idle"
    /\ FreshRun(<<row>>, hasCreds, 1, 1)
    /\ cpc' = "run"
    /\ written' = FALSE
    /\ UNCHANGED mainVars

\* the rest of one iteration of `for q in queries` once search_web returned:
\* the first five results are collected, then the sleep
ScriptProceed(k, key, res, stored, called, failed) ==
    /\ cache' = IF stored THEN cache ELSE cache_put(cache, key, res)
    /\ collected' = collected \o Prefix(res, PerQueryItems)
    /\ lastStored' = stored
    /\ lastCalled' = called
    /\ slept' = TRUE
    /\ allCallsFailed' = (allCallsFailed /\ (called => failed))
    /\ ci' = 1
    /\ qi' = k
    /\ UNCHANGED <<collector, cpc, creds, per_company, companies, seen, out_rows, written,
                   evidence, summary, sent, openai_key, openai, examined, keptBefore,
                   cacheWasEmpty, dedupeVars, loadVars, mainVars>>

\* one query of process_company: search_web(q) (cache_load, and on None
\* search_google and cache_save), the extend, the sleep
ScriptQuery ==
    /\ collector \in {"msp", "na"}
    /\ cpc = "run"
    /\ LET keys == ScriptKeys[collector][companies[1]]
           k == qi + 1
       IN  /\ k <= Len(keys)
           /\ LET key == keys[k]
                  stored == key \in DOMAIN cache
              IN  IF stored
                  THEN ScriptProceed(k, key, cache[key], stored, FALSE, FALSE)
                  ELSE IF ~creds
                       THEN ScriptProceed(k, key, <<>>, stored, FALSE, FALSE)
                       ELSE \E o \in ProviderOutcomes(collector) :
                               IF provider_items(o).raised
                               THEN CollectorRaises(1, k, stored)
                               ELSE ScriptProceed(k, key,
                                                  web_items(collector,
                                                            provider_items(o).res),
                                                  stored, TRUE, ~IsObject(o))

\* the end of process_company: dedupe, the cap, the summary.  OPENAI_KEY is
\* read by summarize_with_openai only, so it is drawn here.
\* (msp lines 275-277, North America lines 206-213)
ScriptFinish(hasKey, o) ==
    /\ collector \in {"msp", "na"}
    /\ cpc = "run"
    /\ qi = CurrentQueryCount
    /\ LET refs == IF collector = "msp"
                   THEN Prefix(dedupe_results(collected, {}), MaxEvidence)
                   ELSE na_dedupe(collected, {})
           res  == summarize_with_openai(collector, hasKey, Prefix(refs, MaxEvidence), o)
       IN  /\ evidence' = IF res.raised THEN <<>> ELSE refs
           /\ sent' = IF res.called
                      THEN Prefix(Prefix(refs, MaxEvidence), MaxSummaryItems)
                      ELSE <<>>
           /\ summary' = IF res.raised THEN "none" ELSE res.text
           /\ cpc' = IF res.raised THEN "raised_in_summarizer" ELSE "done"
           /\ openai' = IF res.called THEN o ELSE NotCalled
    /\ openai_key' = hasKey
    /\ ci' = 1
    /\ UNCHANGED <<collector, cache, creds, per_company, companies, qi, seen, out_rows, written,
                   collected, examined, keptBefore, lastStored, lastCalled, slept,
                   cacheWasEmpty, allCallsFailed, dedupeVars, loadVars, mainVars>>

\* the process has ended (returned or died of the exception); what stays
\* is the cache directory
ProcessExit ==
    /\ cpc \in {"done", "raised", "raised_in_summarizer"}
    /\ cpc' = "idle"
    /\ written' = FALSE
    /\ FreshRun(<<>>, FALSE, 1, 0)
    /\ UNCHANGED mainVars

CollectNext ==
    \/ \E t \in PeopleTables, l \in PeopleLimits, b \in BOOLEAN, n \in 1..MaxPerCompany :
          StartPeople(t, l, b, n)
    \/ PeopleQuery
    \/ \E r \in ScriptCompanies, b \in BOOLEAN : StartCompany(r, b)
    \/ ScriptQuery
    \/ \E b \in BOOLEAN, o \in SummaryOutcomes : ScriptFinish(b, o)
    \/ ProcessExit

(***************************************************************************)
(* database.py: populate_companies_people                                  *)
(***************************************************************************)
\* the number of calls of populate_companies_people on one database
MaxLoads == 2

\* lower(regexp_replace(name,'\s+',' ','g')) of comp_src and ppl_src: the
\* whitespace runs are collapsed and the letters lowered; nothing is trimmed
sql_name_norm(name) == Lower(CollapseWs(name))

\* database.py _normalize_name (lines 63-66): strip, lower, collapse the
\* whitespace runs.  No statement of populate_companies_people calls it.
database_normalize_name(name) == CollapseWs(Lower(Strip(name)))

\* read_csv_auto reads an empty field as NULL: a name (a sequence of
\* characters) and a field kept as one token
IsNull(name) == name = <<>>
IsNullField(field) == field = ""

\* rows of companies_csv
CoRow(name, v) ==
    [name |-> name, website |-> "w" \o v, linkedin |-> "l" \o v, phone |-> "p" \o v,
     address |-> "a" \o v, summary |-> "s" \o v, top_urls |-> "t" \o v]
AcmeITTrail == <<"A","c","m","e"," ","I","T"," ">>
Zed         == <<"Z","e","d">>
CoAcme1     == CoRow(AcmeIT, "1")
CoAcme2     == CoRow(AcmeITTab, "2")
CoAcmeTrail == CoRow(AcmeITTrail, "1")
CoBolt      == CoRow(Bolt, "3")
CoNoName    == CoRow(Empty, "1")

\* the companies files loaded: empty; one company; the same company under
\* another spelling and with other field values; two companies; one
\* company twice in one file; a name with a trailing space; a row without
\* name, alone and after a company
CompaniesCsvs ==
    { <<>>, <<CoAcme1>>, <<CoAcme2>>, <<CoAcme1, CoBolt>>, <<CoAcme1, CoAcme2>>,
      <<CoBolt, CoAcmeTrail>>, <<CoNoName>>, <<CoAcme2, CoNoName>> }

\* rows of people_csv
PplRow(company, url, v) ==
    [company |-> company, profile_url |-> url, title |-> "t" \o v, snippet |-> "n" \o v]
PplAcme1  == PplRow(AcmeIT, "u1", "1")
PplAcme2  == PplRow(AcmeITTab, "u1", "2")
PplBolt   == PplRow(Bolt, "u1", "3")
PplBolt2  == PplRow(Bolt, "u2", "3")
PplOrphan == PplRow(Zed, "u3", "1")
PplLoose  == PplRow(AcmeITLoose, "u4", "1")
PplNoUrl  == PplRow(AcmeIT, "", "1")

\* the people files loaded: empty; one person; one profile in two rows of
\* one company; one profile under two companies, and a second profile; a
\* person of no company and one whose company name has spaces around it; a
\* row without profile_url
PeopleCsvs ==
    { <<>>, <<PplAcme1>>, <<PplAcme1, PplAcme2>>, <<PplAcme2, PplBolt, PplBolt2>>,
      <<PplOrphan, PplLoose>>, <<PplNoUrl>> }

\* name_norm of comp_src and ppl_src, tabulated once for the names of the
\* files
LoadNames ==
    {r.name : r \in UNION {Range(c) : c \in CompaniesCsvs}}
        \cup {r.company : r \in UNION {Range(c) : c \in PeopleCsvs}}
NameNorm == [n \in LoadNames |-> sql_name_norm(n)]

\* What the source leaves to the DuckDB build it runs on:
\*  - "rejects_key_assignment": the binder refuses `do update set
\*    name_norm=...` because name_norm carries the UNIQUE index, so the
\*    companies statement fails whatever the file holds;
\*  - "rejects_batch_duplicates": two rows of one statement with the same
\*    name_norm fail the statement ("can not update the same row twice");
\*  - "keeps_last_of_batch": of the rows of one statement with the same
\*    name_norm only the last takes part.
Engines == {"rejects_key_assignment", "rejects_batch_duplicates", "keeps_last_of_batch"}

\* the rows the insert proposes: the row of the file, its name_norm (the
\* comp_src view) and the id default nextval('company_id_seq') gives it
companies_proposed(csv, seq) ==
    [i \in 1..Len(csv) |->
        [row |-> csv[i], name_norm |-> NameNorm[csv[i].name], id |-> seq + i - 1]]

\* a row of the companies table made of a proposed row
company_row(p) ==
    [id |-> p.id, name |-> p.row.name, name_norm |-> p.name_norm,
     website |-> p.row.website, linkedin |-> p.row.linkedin, phone |-> p.row.phone,
     address |-> p.row.address, summary |-> p.row.summary, top_urls |-> p.row.top_urls]

\* an insert that never sees a conflict
upsert_row_insert_always(tbl, p) ==
    tbl \cup {company_row(p)}

\* insert ... on conflict(name_norm) do update set name_norm, website,
\* summary, top_urls (lines 89-96) for one proposed row
upsert_row(tbl, p) ==
    IF \E t \in tbl : t.name_norm = p.name_norm
    THEN { IF t.name_norm = p.name_norm
           THEN [t EXCEPT !.name_norm = p.name_norm, !.website = p.row.website,
                          !.summary = p.row.summary, !.top_urls = p.row.top_urls]
           ELSE t : t \in tbl }
    ELSE tbl \cup {company_row(p)}

RECURSIVE upsert_rows(_, _)
upsert_rows(tbl, ps) ==
    IF ps = <<>> THEN tbl ELSE upsert_rows(upsert_row(tbl, Head(ps)), Tail(ps))

\* the proposed rows that are not followed by one with the same name_norm
RECURSIVE last_of_batch(_)
last_of_batch(ps) ==
    IF ps = <<>> THEN <<>>
    ELSE IF \E j \in 2..Len(ps) : ps[j].name_norm = Head(ps).name_norm
         THEN last_of_batch(Tail(ps))
         ELSE <<Head(ps)>> \o last_of_batch(Tail(ps))

\* the companies statement (lines 83-98) as one transaction: ok = FALSE is
\* an exception, which leaves the table as it was.  A row without name
\* violates `name text not null`.
companies_statement(eng, tbl, csv, seq) ==
    LET ps == companies_proposed(csv, seq)
        dup == \E i, j \in 1..Len(ps) : i < j /\ ps[i].name_norm = ps[j].name_norm
    IN  IF eng = "rejects_key_assignment" THEN [ok |-> FALSE, tbl |-> tbl, evaluated |-> 0]
        ELSE IF \E i \in 1..Len(ps) : IsNull(ps[i].row.name)
             THEN [ok |-> FALSE, tbl |-> tbl, evaluated |-> Len(ps)]
        ELSE IF dup /\ eng = "rejects_batch_duplicates"
             THEN [ok |-> FALSE, tbl |-> tbl, evaluated |-> Len(ps)]
        ELSE [ok |-> TRUE, tbl |-> upsert_rows(tbl, last_of_batch(ps)), evaluated |-> Len(ps)]

\* ppl_join (lines 115-118): the rows of people_csv whose name_norm is the
\* name_norm of a company, with that company's id, in file order
RECURSIVE ppl_join(_, _)
ppl_join(csv, tbl) ==
    IF csv = <<>> THEN <<>>
    ELSE LET p == Head(csv)
             match == { c \in tbl : ~IsNull(p.company) /\ c.name_norm = NameNorm[p.company] }
         IN  (IF match = {} THEN <<>>
              ELSE << [company_id |-> (CHOOSE c \in match : TRUE).id,
                       profile_url |-> p.profile_url, title |-> p.title,
                       snippet |-> p.snippet] >>)
             \o ppl_join(Tail(csv), tbl)

\* `row_number() over (partition by profile_url) ... where rn = 1` has no
\* ORDER BY: which row of a profile_url gets rn = 1 is up to the engine.
\* A pick names, for every profile_url of the join, one of its rows.
Picks(joined) ==
    { f \in [ {joined[i].profile_url : i \in 1..Len(joined)} -> 1..Len(joined) ] :
        \A u \in DOMAIN f : joined[f[u]].profile_url = u }

\* the orders in which the picked rows can reach the insert
Orders(urls) ==
    { o \in [1..Cardinality(urls) -> urls] : \A i, j \in DOMAIN o : i # j => o[i] # o[j] }

\* an insert that overwrites the stored row of a profile_url
RECURSIVE people_insert_overwrites(_, _, _, _, _)
people_insert_overwrites(tbl, joined, pick, order, seq) ==
    IF order = <<>> THEN tbl
    ELSE LET r == joined[pick[Head(order)]]
             new == [id |-> seq, company_id |-> r.company_id, profile_url |-> r.profile_url,
                     title |-> r.title, snippet |-> r.snippet]
         IN  people_insert_overwrites(
                 {t \in tbl : t.profile_url # r.profile_url} \cup {new},
                 joined, pick, Tail(order), seq + 1)

\* insert ... on conflict(profile_url) do nothing (lines 120-126) for the
\* picked rows in the order they arrive; every proposed row draws an id
RECURSIVE people_insert(_, _, _, _, _)
people_insert(tbl, joined, pick, order, seq) ==
    IF order = <<>> THEN tbl
    ELSE LET r == joined[pick[Head(order)]]
             new == [id |-> seq, company_id |-> r.company_id, profile_url |-> r.profile_url,
                     title |-> r.title, snippet |-> r.snippet]
         IN  people_insert(IF \E t \in tbl : t.profile_url = r.profile_url
                           THEN tbl ELSE tbl \cup {new},
                           joined, pick, Tail(order), seq + 1)

\* the people statement (lines 109-128) as one transaction; a picked row
\* without profile_url violates `profile_url text not null`
people_statement(tbl, joined, pick, order, seq) ==
    IF \E u \in DOMAIN pick : IsNullField(u)
    THEN [ok |-> FALSE, tbl |-> tbl]
    ELSE [ok |-> TRUE, tbl |-> people_insert(tbl, joined, pick, order, seq)]

\* a new database file: create_schema (lines 30-60) makes the sequences
\* and the empty tables
\* the tables load_csv and create_schema can make in one database file
TableNames == {"msp", "companies", "people"}

\* a database file that does not exist yet
NoTables == [t \in TableNames |-> "absent"]
NoRawTable == [columns |-> "none", rows |-> <<>>]
NoRaw == [t \in TableNames |-> NoRawTable]

\* the files given to load_csv: a companies file and a people file, with
\* the columns of their header lines
LoadCsvFiles ==
    { [columns |-> "companies", rows |-> <<CoAcme1>>],
      [columns |-> "people", rows |-> <<PplAcme1>>] }

\* create_schema: `create table if not exists` makes the table that is
\* absent and leaves every other as it is, one made by load_csv too
create_schema(kinds) ==
    [t \in TableNames |->
        IF t \in {"companies", "people"} /\ kinds[t] = "absent" THEN "schema" ELSE kinds[t]]

LoadInit ==
    /\ engine \in Engines
    /\ table_kind = NoTables
    /\ raw = NoRaw
    /\ csvRet = 0
    /\ db_companies = {}
    /\ db_people = {}
    /\ company_id_seq = 1
    /\ people_id_seq = 1
    /\ lpc = "idle"
    /\ loads = 0
    /\ loadRet = <<0, 0>>
    /\ lastCompaniesCsv = <<>>
    /\ lastPeopleCsv = <<>>
    /\ repeated = FALSE
    /\ prevCompanies = {}
    /\ prevPeople = {}

LoadIdle ==
    /\ engine = "keeps_last_of_batch"
    /\ table_kind = NoTables
    /\ raw = NoRaw
    /\ csvRet = 0
    /\ db_companies = {}
    /\ db_people = {}
    /\ company_id_seq = 1
    /\ people_id_seq = 1
    /\ lpc = "idle"
    /\ loads = 0
    /\ loadRet = <<0, 0>>
    /\ lastCompaniesCsv = <<>>
    /\ lastPeopleCsv = <<>>
    /\ repeated = FALSE
    /\ prevCompanies = {}
    /\ prevPeople = {}

\* what every call records, however it ends
LoadCalled(ccsv, pcsv) ==
    /\ loads < MaxLoads
    /\ loads' = loads + 1
    /\ repeated' = (lpc \in {"done", "raised_companies", "raised_people"}
                     /\ ccsv = lastCompaniesCsv)
    /\ lastCompaniesCsv' = ccsv
    /\ lastPeopleCsv' = pcsv
    /\ prevCompanies' = db_companies
    /\ prevPeople' = db_people
    /\ table_kind' = create_schema(table_kind)
    /\ UNCHANGED <<engine, raw, csvRet, dedupeVars, collectVars, mainVars>>

\* populate_companies_people(db_path, companies_csv, people_csv) from
\* connect to return.  The statements commit one by one: when the people
\* statement raises, the companies are already stored.  A sequence is not
\* rolled back with a failed statement when the row defaults had been
\* evaluated; whether they had is left open (kept).  A companies or people
\* table made by load_csv has the columns of its file (no name_norm, no
\* company_id): create_schema leaves it, and the insert that names these
\* columns is refused before any row is evaluated.
PopulateCompaniesPeople(ccsv, pcsv) ==
    /\ LoadCalled(ccsv, pcsv)
    /\ LET cs == companies_statement(engine, db_companies, ccsv, company_id_seq)
       IN  IF table_kind.companies = "raw"
           THEN /\ lpc' = "raised_companies"
                /\ UNCHANGED <<db_companies, db_people, company_id_seq, people_id_seq,
                               loadRet>>
           ELSE IF ~cs.ok
           THEN /\ lpc' = "raised_companies"
                /\ \E kept \in BOOLEAN :
                      company_id_seq' = company_id_seq + (IF kept THEN cs.evaluated ELSE 0)
                /\ UNCHANGED <<db_companies, db_people, people_id_seq, loadRet>>
           ELSE IF table_kind.people = "raw"
           THEN /\ lpc' = "raised_people"
                /\ db_companies' = cs.tbl
                /\ company_id_seq' = company_id_seq + cs.evaluated
                /\ UNCHANGED <<db_people, people_id_seq, loadRet>>
           ELSE LET joined == ppl_join(pcsv, cs.tbl)
                IN  /\ db_companies' = cs.tbl
                    /\ company_id_seq' = company_id_seq + cs.evaluated
                    /\ \E pick \in Picks(joined) : \E order \in Orders(DOMAIN pick) :
                          LET ps == people_statement(db_people, joined, pick, order,
                                                     people_id_seq)
                          IN  IF ~ps.ok
                              THEN /\ lpc' = "raised_people"
                                   /\ \E kept \in BOOLEAN :
                                         people_id_seq' = people_id_seq
                                                          + (IF kept THEN Len(order) ELSE 0)
                                   /\ UNCHANGED <<db_people, loadRet>>
                              ELSE /\ lpc' = "done"
                                   /\ db_people' = ps.tbl
                                   /\ people_id_seq' = people_id_seq + Len(order)
                                   /\ loadRet' = <<Len(ccsv), Len(joined)>>

\* load_csv raises: FileNotFoundError, RuntimeError or the error of the
\* INSERT; no table is changed
LoadCsvRaises ==
    /\ lpc' = "csv_raised"
    /\ UNCHANGED <<table_kind, raw, db_companies, db_people, csvRet>>

\* load_csv(csv_path, table, db_path, replace, append) on the database file
\* of populate_companies_people; there says whether csv_path exists.
\* `INSERT INTO table SELECT *` into a table of create_schema fails: the
\* companies table has nine columns and the files seven and five, the
\* people table has seven and its id would be a company name.  Into a
\* table made by load_csv it goes through when the file has the table's
\* columns.
LoadCsv(file, table, there, replace, append) ==
    /\ loads < MaxLoads
    /\ loads' = loads + 1
    /\ repeated' = FALSE
    /\ prevCompanies' = db_companies
    /\ prevPeople' = db_people
    /\ UNCHANGED <<engine, company_id_seq, people_id_seq, loadRet, lastCompaniesCsv,
                   lastPeopleCsv, dedupeVars, collectVars, mainVars>>
    /\ LET kind == IF replace THEN "absent" ELSE table_kind[table]
           exists == kind # "absent"
           created == [columns |-> file.columns, rows |-> file.rows]
           appended == [raw[table] EXCEPT !.rows = @ \o file.rows]
       IN  IF ~there
           THEN LoadCsvRaises
           ELSE IF exists /\ ~append /\ ~replace
           THEN LoadCsvRaises
           ELSE IF exists /\ append
           THEN IF kind = "raw" /\ raw[table].columns = file.columns
                THEN /\ lpc' = "csv_loaded"
                     /\ raw' = [raw EXCEPT ![table] = appended]
                     /\ csvRet' = Len(appended.rows)
                     /\ UNCHANGED <<table_kind, db_companies, db_people>>
                ELSE LoadCsvRaises
           ELSE /\ lpc' = "csv_loaded"
                /\ table_kind' = [table_kind EXCEPT ![table] = "raw"]
                /\ raw' = [raw EXCEPT ![table] = created]
                /\ db_companies' = IF table = "companies" THEN {} ELSE db_companies
                /\ db_people' = IF table = "people" THEN {} ELSE db_people
                /\ csvRet' = Len(created.rows)

LoadNext ==
    \/ \E ccsv \in CompaniesCsvs, pcsv \in PeopleCsvs : PopulateCompaniesPeople(ccsv, pcsv)
    \/ \E file \in LoadCsvFiles, table \in TableNames, there \in BOOLEAN,
          replace \in BOOLEAN, append \in BOOLEAN :
            LoadCsv(file, table, there, replace, append)

(***************************************************************************)
(* main of scripts/msp_search_and_summarize.py and of                      *)
(* north_america_msp_search_and_summarize.py                               *)
(***************************************************************************)
\* the rows of args.input: none, one named company, a row without a name
\* (blank after strip) followed by a named one, two named companies
BlankNameRow == [name |-> <<" ">>, website |-> <<>>]
MainInputs ==
    { <<>>, <<CompanyAbNoSite>>, <<BlankNameRow, CompanyAb>>, <<CompanyAb, CompanyAbNoSite>> }

\* the values of --limit: none (the default 0) and the first row only
MainLimits == {0, 1}

\* `if args.limit and idx > args.limit: break` for the row after the first
\* done rows
LimitReached(limit, done) == limit # 0 /\ done + 1 > limit

\* refs[:5] of the top_urls column
TopUrls == 5

\* '; '.join(r.get('url', '') for r in refs)
RECURSIVE join_urls(_)
join_urls(refs) ==
    IF refs = <<>> THEN <<>>
    ELSE IF Len(refs) = 1 THEN refs[1].url
    ELSE refs[1].url \o <<";", " ">> \o join_urls(Tail(refs))

\* the row main appends for a company
main_out_row(row, summ, refs) ==
    [name     |-> Strip(row.name),
     website  |-> Strip(row.website),
     summary  |-> summ,
     top_urls |-> join_urls(Prefix(refs, TopUrls))]

MainIdle ==
    /\ mpc = "none"
    /\ main_exists = FALSE
    /\ main_openai = FALSE
    /\ main_rows = <<>>
    /\ main_limit = 0
    /\ mi = 0
    /\ main_out = <<>>
    /\ main_written = FALSE

MainInit ==
    /\ collector \in {"msp", "na"}
    /\ cache = <<>>
    /\ cpc = "idle"
    /\ creds = FALSE
    /\ per_company = 1
    /\ companies = <<>>
    /\ ci = 0
    /\ qi = 0
    /\ seen = {}
    /\ out_rows = <<>>
    /\ written = FALSE
    /\ collected = <<>>
    /\ evidence = <<>>
    /\ summary = "none"
    /\ sent = <<>>
    /\ openai_key = FALSE
    /\ openai = NotCalled
    /\ examined = <<>>
    /\ keptBefore = 0
    /\ lastStored = FALSE
    /\ lastCalled = FALSE
    /\ slept = FALSE
    /\ cacheWasEmpty = TRUE
    /\ allCallsFailed = TRUE
    /\ MainIdle

\* main from its first line to the loop: the four early returns in the
\* order of the code, each before anything is written
MainStart(exists, rows, limit, google, okey) ==
    /\ mpc = "none"
    /\ cpc = "idle"
    /\ main_exists' = exists
    /\ main_limit' = limit
    /\ creds' = google
    /\ main_openai' = okey
    /\ main_rows' = IF exists THEN rows ELSE <<>>
    /\ mpc' = IF ~exists THEN "exit1"
              ELSE IF ~google THEN "exit1"
              ELSE IF ~okey THEN "exit1"
              ELSE IF rows = <<>> THEN "exit1"
              ELSE "loop"
    /\ mi' = 0
    /\ main_out' = <<>>
    /\ main_written' = FALSE
    /\ UNCHANGED <<collector, cache, cpc, per_company, companies, ci, qi, seen, out_rows,
                   written, collected, evidence, summary, sent, openai_key, openai, examined,
                   keptBefore, lastStored, lastCalled, slept, cacheWasEmpty, allCallsFailed,
                   dedupeVars, loadVars>>

\* `if not name: continue`
MainSkip ==
    /\ mpc = "loop"
    /\ cpc = "idle"
    /\ mi < Len(main_rows)
    /\ ~LimitReached(main_limit, mi)
    /\ Strip(main_rows[mi + 1].name) = <<>>
    /\ mi' = mi + 1
    /\ UNCHANGED <<mpc, main_exists, main_openai, main_rows, main_limit, main_out,
                   main_written, dedupeVars, collectVars, loadVars>>

\* process_company is called for the next named row; both credentials
\* are set, or main had returned
MainCompany ==
    /\ mpc = "loop"
    /\ mi < Len(main_rows)
    /\ ~LimitReached(main_limit, mi)
    /\ Strip(main_rows[mi + 1].name) # <<>>
    /\ StartCompany(main_rows[mi + 1], creds)

\* summarize_with_openai at the end of process_company
MainSummarize ==
    /\ mpc = "loop"
    /\ \E o \in SummaryOutcomes : ScriptFinish(main_openai, o)

\* process_company returned: the output row is appended
MainCollect ==
    /\ mpc = "loop"
    /\ cpc = "done"
    /\ main_out' = Append(main_out, main_out_row(main_rows[mi + 1], summary, evidence))
    /\ mi' = mi + 1
    /\ cpc' = "idle"
    /\ written' = FALSE
    /\ FreshRun(<<>>, creds, 1, 0)
    /\ UNCHANGED <<mpc, main_exists, main_openai, main_rows, main_limit, main_written>>

\* an exception of process_company is not caught by main: the process
\* dies with the rows collected so far unwritten
MainRaised ==
    /\ mpc = "loop"
    /\ cpc \in {"raised", "raised_in_summarizer"}
    /\ mpc' = "raised"
    /\ UNCHANGED <<main_exists, main_openai, main_rows, main_limit, mi, main_out,
                   main_written, dedupeVars, collectVars, loadVars>>

\* the loop is left, after the last row or at the break of --limit:
\* write_csv(args.output, out_rows); return 0
MainWrite ==
    /\ mpc = "loop"
    /\ cpc = "idle"
    /\ mi = Len(main_rows) \/ LimitReached(main_limit, mi)
    /\ main_written' = TRUE
    /\ mpc' = "exit0"
    /\ UNCHANGED <<main_exists, main_openai, main_rows, main_limit, mi, main_out,
                   dedupeVars, collectVars, loadVars>>

\* the process has ended; what stays is the cache directory
MainExit ==
    /\ mpc \in {"exit0", "exit1", "raised"}
    /\ mpc' = "none"
    /\ main_exists' = FALSE
    /\ main_openai' = FALSE
    /\ main_rows' = <<>>
    /\ main_limit' = 0
    /\ mi' = 0
    /\ main_out' = <<>>
    /\ main_written' = FALSE
    /\ cpc' = "idle"
    /\ written' = FALSE
    /\ FreshRun(<<>>, FALSE, 1, 0)

MainNext ==
    \/ \E e \in BOOLEAN, rows \in MainInputs, l \in MainLimits, g \in BOOLEAN,
          k \in BOOLEAN :
            MainStart(e, rows, l, g, k)
    \/ MainSkip
    \/ MainCompany
    \/ ScriptQuery
    \/ MainSummarize
    \/ MainCollect
    \/ MainRaised
    \/ MainWrite
    \/ MainExit

\* the rows of the input that have a name
NamedRows(rows) == SelectSeq(rows, LAMBDA r : Strip(r.name) # <<>>)

\* C18: a run of main (without --limit) started with a missing search or
\* summarization credential does not abort: it ends by writing the output, with one row
\* for every named row of the input.  Both mains return 1 on a missing
\* credential before the input is read, and write nothing.
C18_MissingCredentialDegrades ==
    (/\ mpc \in {"exit0", "exit1", "raised"}
     /\ main_exists
     /\ main_rows # <<>>
     /\ main_limit = 0
     /\ (~creds \/ ~main_openai))
        => (/\ mpc = "exit0"
            /\ main_written
            /\ Len(main_out) = Len(NamedRows(main_rows)))

\* C20: discover_people given an empty companies table reports failure
\* and writes no output.  It writes the (empty) output and returns 0.
C20_EmptyTableIsFatal ==
    (collector = "people" /\ cpc \in {"done", "raised"} /\ companies = <<>>)
        => (cpc = "raised" /\ ~written)

(***************************************************************************)
(* Specifications                                                          *)
(***************************************************************************)
CollectIdle ==
    /\ collector = "people"
    /\ cache = <<>>
    /\ cpc = "idle"
    /\ creds = FALSE
    /\ per_company = 1
    /\ companies = <<>>
    /\ ci = 0
    /\ qi = 0
    /\ seen = {}
    /\ out_rows = <<>>
    /\ written = FALSE
    /\ collected = <<>>
    /\ evidence = <<>>
    /\ summary = "none"
    /\ sent = <<>>
    /\ openai_key = FALSE
    /\ openai = NotCalled
    /\ examined = <<>>
    /\ keptBefore = 0
    /\ lastStored = FALSE
    /\ lastCalled = FALSE
    /\ slept = FALSE
    /\ cacheWasEmpty = TRUE
    /\ allCallsFailed = TRUE

\* the collectors: discover_people, and process_company of both scripts
Init == CollectInit /\ DedupeIdle /\ LoadIdle /\ MainIdle
Spec == Init /\ [][CollectNext]_vars

\* dedupe_summaries
InitDedupe == DedupeInit /\ CollectIdle /\ LoadIdle /\ MainIdle
SpecDedupe == InitDedupe /\ [][DedupeNext]_vars

\* populate_companies_people
InitLoad == LoadInit /\ DedupeIdle /\ CollectIdle /\ MainIdle
SpecLoad == InitLoad /\ [][LoadNext]_vars

\* main of the two summarization scripts
InitMain == MainInit /\ DedupeIdle /\ LoadIdle
SpecMain == InitMain /\ [][MainNext]_vars

(***************************************************************************)
(* Properties of dedupe_summaries (checked under SpecDedupe)               *)
(***************************************************************************)
RowKey(r) == _normalize_name(r.name)

\* the input positions whose identity key is k
KeyPositions(k) == {i \in 1..Len(inFile) : RowKey(inFile[i]) = k}

FirstPos(k) == CHOOSE i \in KeyPositions(k) : \A j \in KeyPositions(k) : i <= j
LastPos(k)  == CHOOSE i \in KeyPositions(k) : \A j \in KeyPositions(k) : j <= i

NonEmptyKeys == {RowKey(inFile[i]) : i \in 1..Len(inFile)} \ {<<>>}

\* C7: for every non-empty identity key of the input, the output holds
\* exactly one row with that key: the earliest input row with that key under
\* keep = "first", the latest one under keep = "last".
C7_KeptRowFollowsPolicy ==
    dpc = "done" =>
        \A k \in NonEmptyKeys :
            LET pick == IF keep = "last" THEN LastPos(k) ELSE FirstPos(k)
                outs == {o \in 1..Len(outFile) : RowKey(outFile[o]) = k}
            IN  /\ Cardinality(outs) = 1
                /\ \A o \in outs : outFile[o] = inFile[pick]

\* the scenario "Acme IT", "  acme it  ", "Acme IT" with keep = "first":
\* total 3, unique 1, the first row kept although the later rows differ
C7_Witness ==
    /\ dpc = "done"
    /\ keep = "first"
    /\ inFile = << [name |-> AcmeIT, summary |-> "s1"],
                   [name |-> AcmeITLoose, summary |-> "s2"],
                   [name |-> AcmeIT, summary |-> "s2"] >>
    /\ ret = <<3, 1>>
    /\ outFile = << [name |-> AcmeIT, summary |-> "s1"] >>

\* C8: total_rows counts every input row (empty keys included), the unique
\* count is the number of distinct non-empty keys, no output row has an
\* empty key, and the output rows follow the first occurrence of their keys.
C8_CountsAndOrder ==
    dpc = "done" =>
        /\ ret[1] = Len(inFile)
        /\ ret[2] = Cardinality(NonEmptyKeys)
        /\ Len(outFile) = ret[2]
        /\ \A o \in 1..Len(outFile) : RowKey(outFile[o]) \in NonEmptyKeys
        /\ \A o1, o2 \in 1..Len(outFile) :
               o1 < o2 => FirstPos(RowKey(outFile[o1])) < FirstPos(RowKey(outFile[o2]))

\* an input with an empty-key row between two companies, the first of which
\* occurs again later, under keep = "last"
C8_Witness ==
    /\ dpc = "done"
    /\ keep = "last"
    /\ Len(inFile) = 3
    /\ RowKey(inFile[1]) = RowKey(inFile[3])
    /\ RowKey(inFile[1]) # <<>>
    /\ inFile[1] # inFile[3]
    /\ RowKey(inFile[2]) = <<>>
    /\ ret = <<3, 1>>
    /\ outFile = <<inFile[3]>>

\* C9: run on the rows of its own output, under either policy, the function
\* writes the same rows in the same order and returns total = unique.
C9_Idempotent ==
    (dpc = "done" /\ fromOutput) =>
        /\ outFile = inFile
        /\ ret = <<Len(inFile), Len(inFile)>>

\* a second pass, with keep = "last", over an output of two companies
C9_Witness ==
    /\ dpc = "done"
    /\ fromOutput
    /\ keep = "last"
    /\ Len(inFile) = 2
    /\ outFile = inFile

(***************************************************************************)
(* Properties of the collectors (checked under Spec)                       *)
(***************************************************************************)
\* the positions in out_rows of the rows of company c
RowsOf(c) == { i \in 1..Len(out_rows) : out_rows[i].idx = c }

\* C1: discover_people emits at most per_company rows for every company.
\* The break at lines 206-207 leaves only the item loop: each of the
\* company's queries can add a row before it is reached again.
C1_AtMostPerCompany ==
    collector = "people" =>
        \A c \in 1..Len(companies) : Cardinality(RowsOf(c)) <= per_company

\* C2: a query of discover_people is looked up (in the cache, then at the
\* provider) only while the company has fewer than per_company kept
\* profiles.  keptBefore is len(seen) when query qi was looked up.
C2_NoQueryAfterCap ==
    (collector = "people" /\ cpc \in {"run", "done", "raised"} /\ qi >= 1)
        => keptBefore < per_company

\* item e of examined is one discover_people accepts when its link is new
Accepted(e) == IsProfile[examined[e]] /\ LikelyEmployee[examined[e]][companies[ci]]

\* C3: within one company's collection no URL is kept twice, and the item
\* kept for a URL is the first one with that URL (in discover_people, the
\* first one that passes the profile and employee filters): the rows of the
\* company in out_rows, and the evidence of process_company in both scripts.
C3_NoUrlKeptTwice ==
    /\ (collector = "people" /\ cpc \in {"run", "done"} /\ ci >= 1) =>
          /\ \A i, j \in RowsOf(ci) :
                i # j => out_rows[i].profile_url # out_rows[j].profile_url
          /\ \A i \in RowsOf(ci) :
                \E e \in 1..Len(examined) :
                    /\ examined[e].link = out_rows[i].profile_url
                    /\ examined[e].title = out_rows[i].title
                    /\ examined[e].snippet = out_rows[i].snippet
                    /\ Accepted(e)
                    /\ \A d \in 1..(e - 1) :
                          examined[d].link = examined[e].link => ~Accepted(d)
    /\ (collector \in {"msp", "na"} /\ cpc = "done") =>
          /\ \A i, j \in 1..Len(evidence) :
                i # j => evidence[i].url # evidence[j].url
          /\ \A i \in 1..Len(evidence) :
                \E e \in 1..Len(collected) :
                    /\ collected[e] = evidence[i]
                    /\ \A d \in 1..(e - 1) : collected[d].url # evidence[i].url

\* C3 witness: the msp script has finished a company whose queries returned
\* the same URL under two titles, and the evidence holds the earlier one
C3_Witness ==
    /\ collector = "msp"
    /\ cpc = "done"
    /\ \E d, e \in 1..Len(collected) :
          /\ d < e
          /\ collected[d].url = collected[e].url
          /\ collected[d].title # collected[e].title
          /\ \E i \in 1..Len(evidence) : evidence[i] = collected[d]
          /\ \A i \in 1..Len(evidence) : evidence[i] # collected[e]

\* C4: a query whose result is already stored in the cache (an empty list
\* included) is not sent to the provider again.  discover_people reads
\* `cache_load(key) or google_cse(q)`: a stored empty list is falsy.
C4_StoredQueryNotRefetched ==
    (cpc \in {"run", "done", "raised"} /\ qi >= 1 /\ lastStored) => ~lastCalled

\* C5: a query answered from the cache, without a call of the provider, is
\* followed by no pause.  All three loops sleep after every query.
C5_NoPauseAfterCacheHit ==
    (cpc \in {"run", "done"} /\ qi >= 1 /\ lastStored /\ ~lastCalled) => ~slept

\* C6: started on an empty cache, without credentials or with every call
\* of the provider failing, discover_people does not raise and emits no
\* row.  A truthy body that is JSON but not an object ([1]) makes
\* google_cse raise; null and [] give an empty result.
C6_UnavailableProviderYieldsNothing ==
    (collector = "people" /\ cacheWasEmpty /\ (~creds \/ allCallsFailed))
        => (cpc # "raised" /\ out_rows = <<>>)

\* C17: summarize_with_openai never raises; without OPENAI_KEY it returns
\* the fixed sentinel and makes no request; a status other than 200 gives
\* "OpenAI error <status>: <body>" and an exception of the request gives
\* "OpenAI request failed: <exception>"; the request holds the first
\* MaxSummaryItems evidence items, in order.  The North America version
\* raises before its try block on an evidence item whose title or snippet
\* is None, which its search_google passes on from the provider's answer.
C17_SummarizerNeverRaises ==
    collector \in {"msp", "na"} =>
        /\ cpc # "raised_in_summarizer"
        /\ openai # NotCalled => cpc = "done"
        /\ cpc = "done" =>
              /\ ~openai_key =>
                    /\ openai = NotCalled
                    /\ sent = <<>>
                    /\ summary = IF collector = "msp"
                                 THEN "Missing OPENAI_API_KEY in environment; cannot summarize."
                                 ELSE "Missing OPENAI_API_KEY; cannot summarize."
              /\ openai_key =>
                    /\ openai # NotCalled
                    /\ sent = Prefix(evidence, MaxSummaryItems)
                    /\ openai.kind = "status" =>
                          summary = "OpenAI error " \o openai.code \o ": " \o openai.text
                    /\ openai.kind = "exception" =>
                          summary = "OpenAI request failed: " \o openai.text

\* C19: the rows discover_people writes have pairwise distinct
\* profile_urls.  The seen set is made anew for every company (line 184),
\* so a profile found for two companies is written once for each.
C19_OneRowPerProfileInOutput ==
    (collector = "people" /\ cpc = "done" /\ written) =>
        \A i, j \in 1..Len(out_rows) :
            i # j => out_rows[i].profile_url # out_rows[j].profile_url

(***************************************************************************)
(* Properties of populate_companies_people (checked under SpecLoad)        *)
(***************************************************************************)
\* C10: loading the companies file that the call before loaded leaves the
\* companies table as that call left it: the same rows, with the same id
\* and the same values in every column.
C10_CompaniesLoadIdempotent ==
    repeated => db_companies = prevCompanies

\* C10 witness: a file with rows has been loaded twice in a row, both
\* calls returned, and the table holds rows
C10_Witness ==
    /\ repeated
    /\ lpc = "done"
    /\ lastCompaniesCsv # <<>>
    /\ db_companies # {}
    /\ prevCompanies # {}
    /\ company_id_seq > 1 + Cardinality(db_companies)

\* the companies statement of the last call was committed
CompaniesCommitted == lpc \in {"done", "raised_people"}

\* the last call was populate_companies_people
Populated == lpc \in {"done", "raised_companies", "raised_people"}

\* the positions in the last companies file of the rows with name_norm k
CsvRowsOf(k) ==
    { i \in 1..Len(lastCompaniesCsv) : NameNorm[lastCompaniesCsv[i].name] = k }

\* the last of these rows: the incoming values for k
Incoming(k) ==
    lastCompaniesCsv[CHOOSE i \in CsvRowsOf(k) : \A j \in CsvRowsOf(k) : j <= i]

\* C11: after a load, every row that was in the companies table and whose
\* name_norm is in the file has website, summary and top_urls of the
\* incoming row, and its id, name_norm, name, linkedin, phone and address
\* as before the load.  Taken on the engine that accepts the upsert and
\* for files that hold each name_norm once; the table is the one of
\* create_schema.  The insert is one statement: a row without name in
\* the file violates `name text not null`, the statement fails as a
\* whole, and the stored row whose key is in the file keeps its values.
C11_UpsertFrame ==
    (/\ Populated
     /\ engine = "keeps_last_of_batch"
     /\ table_kind.companies = "schema"
     /\ \A t \in prevCompanies : Cardinality(CsvRowsOf(t.name_norm)) <= 1)
        => \A t \in prevCompanies :
              CsvRowsOf(t.name_norm) # {} =>
                  [t EXCEPT !.website = Incoming(t.name_norm).website,
                            !.summary = Incoming(t.name_norm).summary,
                            !.top_urls = Incoming(t.name_norm).top_urls] \in db_companies

\* the last companies file holds two rows with one name_norm
CsvHasDuplicateKey ==
    \E i, j \in 1..Len(lastCompaniesCsv) :
        i < j /\ NameNorm[lastCompaniesCsv[i].name] = NameNorm[lastCompaniesCsv[j].name]

\* C12: the companies table never holds two rows with one name_norm, and a
\* load whose file holds several rows with one name_norm (every row with a
\* name) does not fail in the companies statement, taken on an engine that
\* accepts the statement as such.  The first half holds (name_norm is
\* UNIQUE); the second does not: the engine refuses to update one row twice
\* in a statement.
C12_OneRowPerKeyNoFailure ==
    /\ \A t, u \in db_companies : t.name_norm = u.name_norm => t = u
    /\ (loads >= 1 /\ CsvHasDuplicateKey /\ engine # "rejects_key_assignment"
            /\ table_kind.companies = "schema"
            /\ \A i \in 1..Len(lastCompaniesCsv) : ~IsNull(lastCompaniesCsv[i].name))
          => lpc # "raised_companies"

\* row i of the last people file names a company of the table
Joins(i) ==
    /\ ~IsNull(lastPeopleCsv[i].company)
    /\ \E c \in db_companies : c.name_norm = NameNorm[lastPeopleCsv[i].company]

\* C13: the people table of the loader never holds two rows with one
\* profile_url; a load changes no row it finds in the table; and the
\* people statement of a load into that table fails only on a row without
\* profile_url, never because a profile_url occurs in several rows of the
\* file or is stored already.
C13_OneRowPerProfile ==
    /\ \A t, u \in db_people : t.profile_url = u.profile_url => t = u
    /\ Populated => prevPeople \subseteq db_people
    /\ (lpc = "raised_people" /\ table_kind.people = "schema") =>
          \E i \in 1..Len(lastPeopleCsv) : IsNullField(lastPeopleCsv[i].profile_url)
    /\ lpc = "done" => (table_kind.companies = "schema" /\ table_kind.people = "schema")

\* C13 witness: a load has returned whose file holds two joining rows with
\* a profile_url that was stored under another title, and the stored row
\* is as it was
C13_Witness ==
    /\ lpc = "done"
    /\ \E t \in prevPeople : \E i, j \in 1..Len(lastPeopleCsv) :
          /\ i < j
          /\ Joins(i) /\ Joins(j)
          /\ lastPeopleCsv[i].profile_url = t.profile_url
          /\ lastPeopleCsv[j].profile_url = t.profile_url
          /\ lastPeopleCsv[i].title # t.title
          /\ lastPeopleCsv[j].title # t.title
          /\ t \in db_people

\* C14: after a load that returned, every row of the people file that has
\* a profile_url is in the people table, whether or not its company name
\* is the name of a company.  ppl_join is an inner join: a row without
\* company is not in it and never reaches the insert.
C14_OrphanStillInserted ==
    lpc = "done" =>
        \A i \in 1..Len(lastPeopleCsv) :
            ~IsNullField(lastPeopleCsv[i].profile_url) =>
                \E t \in db_people : t.profile_url = lastPeopleCsv[i].profile_url

\* the company row i of the last people file joins
CompanyIdOf(i) ==
    (CHOOSE c \in db_companies : c.name_norm = NameNorm[lastPeopleCsv[i].company]).id

\* C15: after a load that returned, the row stored for a profile_url that
\* was not in the table before is made of the first row of the file with
\* that profile_url (among the rows that join a company): its company_id,
\* title and snippet.  row_number() has no ORDER BY, so the engine may give
\* rn = 1 to any row of the partition.
C15_FirstRowOfProfileWins ==
    lpc = "done" =>
        \A t \in db_people \ prevPeople :
            \A i \in 1..Len(lastPeopleCsv) :
                (/\ Joins(i)
                 /\ lastPeopleCsv[i].profile_url = t.profile_url
                 /\ \A j \in 1..(i - 1) :
                       Joins(j) => lastPeopleCsv[j].profile_url # t.profile_url)
                    => /\ t.title = lastPeopleCsv[i].title
                       /\ t.snippet = lastPeopleCsv[i].snippet
                       /\ t.company_id = CompanyIdOf(i)

\* C16: after a load whose companies statement went through, a row of the
\* people file whose company name has the _normalize_name key of a stored
\* company's name is joined to that company: the loader's key of both is
\* the same.  The SQL key is not trimmed: "Acme IT " has the key
\* "acme it ", which is not the key of "Acme IT".
C16_JoinUpToCaseAndWhitespace ==
    CompaniesCommitted =>
        \A i \in 1..Len(lastPeopleCsv) : \A c \in db_companies :
            (/\ database_normalize_name(lastPeopleCsv[i].company) # <<>>
             /\ database_normalize_name(lastPeopleCsv[i].company)
                    = database_normalize_name(c.name))
                => NameNorm[lastPeopleCsv[i].company] = c.name_norm

====
